---- MODULE Spec2Model ----
(***************************************************************************)
(* A model of gnu_elpa_mirror.py: the mirror() procedure that syncs the    *)
(* packages of GNU ELPA into one Git repository per package plus a         *)
(* manifest repository.  The file system, the Git repositories and the     *)
(* hosting API are state; every external command the script runs is        *)
(* recorded in `events` with its exit status.                              *)
(***************************************************************************)
EXTENDS Integers, Sequences, FiniteSets, TLC

\* ------------------------------------------------------------- bounds

\* How many times the script is run in a row.
MaxRuns == 2
\* Regular files have a size in 0..MaxSize (0 is the empty file).
MaxSize == 1

\* Every entry name of the model, in the order sorted() gives them.
NameOrder ==
    <<".git", "bar", "foo", "foo.el", "gnu-elpa-mirror", "link", "new.el", "old.el", "sub", "x">>

\* ------------------------------------------------------ file system

NoKids == [n \in {} |-> 0]
EmptyTree == NoKids

File(s) == [kind |-> "file", size |-> s, target |-> "", to |-> "", kids |-> NoKids]
Dir(k) == [kind |-> "dir", size |-> 0, target |-> "", to |-> "", kids |-> k]
\* A symbolic link: `target` is the path it stores, `to` what following it
\* finds ("file", "dir" or "none" for a dangling link), and size / kids are
\* those of the file or directory it resolves to.
Symlink(t, to, s, k) == [kind |-> "symlink", size |-> s, target |-> t, to |-> to, kids |-> k]

\* The .git directory of a working copy (its content is the repo state).
GitDir == Dir(NoKids)

\* pathlib.Path.is_dir follows symbolic links; is_symlink does not.
is_dir(e) == e.kind = "dir" \/ (e.kind = "symlink" /\ e.to = "dir")
is_symlink(e) == e.kind = "symlink"

\* sorted(path.iterdir()): the names of a directory in order.
SortedNames(dir) == SelectSeq(NameOrder, LAMBDA n : n \in DOMAIN dir)

Without(dir, name) == [n \in DOMAIN dir \ {name} |-> dir[n]]
With(dir, name, e) == [n \in DOMAIN dir \cup {name} |-> IF n = name THEN e ELSE dir[n]]

\* shutil.rmtree refuses a symbolic link; otherwise the tree is removed.
rmtree_ok(e) == ~is_symlink(e)
\* Path.unlink removes a file or a link; it fails on a real directory.
\* FileNotFoundError is caught by the caller.
unlink_ok(e) == e.kind # "dir"

\* delete_contents(path): [ok, dir]; on an error the entries before it in
\* sorted order are gone and the rest remain.
RECURSIVE DeleteEntries(_, _)
DeleteEntries(dir, names) ==
    IF names = << >> THEN [ok |-> TRUE, dir |-> dir]
    ELSE LET n == Head(names)
             e == dir[n]
         IN  IF n = ".git" THEN DeleteEntries(dir, Tail(names))
             ELSE IF is_dir(e) /\ ~is_symlink(e)
                  THEN IF rmtree_ok(e)
                       THEN DeleteEntries(Without(dir, n), Tail(names))
                       ELSE [ok |-> FALSE, dir |-> dir]
                  ELSE IF unlink_ok(e)
                       THEN DeleteEntries(Without(dir, n), Tail(names))
                       ELSE [ok |-> FALSE, dir |-> dir]

\* A delete_contents that unlinks files and links and leaves directories.
delete_contents_files_only(dir) ==
    [ok |-> TRUE, dir |-> [n \in {m \in DOMAIN dir : m = ".git" \/ dir[m].kind = "dir"} |-> dir[n]]]

delete_contents(dir) == DeleteEntries(dir, SortedNames(dir))

\* shutil.copyfile(source, target) with its default follow_symlinks=True:
\* the source is opened for reading, so a link is followed; a directory
\* (IsADirectoryError) and a dangling link (FileNotFoundError) fail before
\* the target is created.  The result is a regular file.
copyfile(e) ==
    IF is_dir(e) \/ (is_symlink(e) /\ e.to = "none")
    THEN [ok |-> FALSE, made |-> FALSE, node |-> e]
    ELSE [ok |-> TRUE, made |-> TRUE, node |-> File(e.size)]

\* shutil.copytree(source, target) with its default symlinks=False: links
\* are followed, a dangling link is an error reported after the rest of
\* the tree was copied.
RECURSIVE copytree(_)
copytree(e) ==
    LET sub(k) == IF is_dir(k) THEN copytree(Dir(k.kids)) ELSE copyfile(k)
        made == {n \in DOMAIN e.kids : sub(e.kids[n]).made}
    IN  [ok |-> \A n \in DOMAIN e.kids : sub(e.kids[n]).ok,
         made |-> TRUE,
         node |-> Dir([n \in made |-> sub(e.kids[n]).node])]

\* One entry of the snapshot copy (mirror, the body of the for loop).
CopyEntry(source) ==
    IF is_dir(source) /\ ~is_symlink(source) THEN copytree(source) ELSE copyfile(source)

\* The snapshot copy loop of mirror(): [ok, dir].
RECURSIVE CopyEntries(_, _, _)
CopyEntries(package_dir, repo_dir, names) ==
    IF names = << >> THEN [ok |-> TRUE, dir |-> repo_dir]
    ELSE LET n == Head(names)
             r == CopyEntry(package_dir[n])
             d == IF r.made THEN With(repo_dir, n, r.node) ELSE repo_dir
         IN  IF n = ".git" THEN CopyEntries(package_dir, repo_dir, Tail(names))
             ELSE IF r.ok THEN CopyEntries(package_dir, d, Tail(names))
                  ELSE [ok |-> FALSE, dir |-> d]

SnapshotCopy(package_dir, repo_dir) ==
    CopyEntries(package_dir, repo_dir, SortedNames(package_dir))

\* ---------------------------------------------------------------- git

\* What `git add --all --force` puts in the index: files and links as they
\* are, directories by their content, no empty directory and no .git.
RECURSIVE IndexOf(_)
IndexOf(dir) ==
    LET node(e) == IF e.kind = "dir" THEN Dir(IndexOf(e.kids)) ELSE e
        kept == {n \in DOMAIN dir :
                    /\ n # ".git"
                    /\ (dir[n].kind = "dir" => DOMAIN IndexOf(dir[n].kids) # {})}
    IN  [n \in kept |-> node(dir[n])]

NoMsg == [summary |-> << >>, timestamp |-> 0, gnu_elpa_commit |-> "", emacs_commit |-> ""]
Unborn == [born |-> FALSE, tree |-> EmptyTree, msg |-> NoMsg]
Commit(tree, msg) == [born |-> TRUE, tree |-> tree, msg |-> msg]

NoDir == [exists |-> FALSE, worktree |-> EmptyTree, head |-> Unborn, origin |-> Unborn]

\* The working copy a checkout of `commit` gives.
Checkout(commit) == With(commit.tree, ".git", GitDir)

\* git reset --hard: tracked entries follow the new tree, untracked stay.
ResetHard(worktree, old, new) ==
    [n \in (DOMAIN new.tree) \cup {m \in DOMAIN worktree : m \notin DOMAIN old.tree} |->
        IF n \in DOMAIN new.tree THEN new.tree[n] ELSE worktree[n]]


\* ------------------------------------------------- URLs and messages

\* os.environ["ACCESS_TOKEN"]
ACCESS_TOKEN == "token"

GNU_ELPA_GIT_URL == <<"https://git.savannah.gnu.org/git/emacs/elpa.git">>
EMACS_GIT_URL == <<"https://git.savannah.gnu.org/git/emacs.git">>

\* "https://raxod502:{}@github.com/emacs-straight/{}.git".format(ACCESS_TOKEN, name)
MirrorUrl(name) ==
    <<"https://raxod502:", ACCESS_TOKEN, "@github.com/emacs-straight/", name, ".git">>

\* die(message): the line written to stderr before sys.exit(1).
die(message) == <<"gnu_elpa_mirror: ", message>>

\* An uncaught subprocess.CalledProcessError: the traceback ends with the
\* command line that failed.
CalledProcessError(cmd) == <<"subprocess.CalledProcessError: Command">> \o cmd
\* An uncaught OSError / shutil.Error / GithubException names what it hit.
OtherError(what) == <<"Error", what>>

Event(cmd, repo, rc) == [cmd |-> cmd, repo |-> repo, rc |-> rc]

\* -------------------------------------------------------------- state

VARIABLES
    pc,              \* the statement of mirror() about to run
    run,             \* which run of the script this is
    args,            \* sys.argv[1:], as a set of flags
    i,               \* position of the running for loop in `packages`
    packages,        \* mirror(): packages
    existing_repos,  \* mirror(): existing_repos
    commit_data,     \* mirror(): commit_data
    build_script,    \* gnu-elpa/admin/archive-contents.el
    packages_dir,    \* the directory gnu-elpa/packages
    local,           \* the working copies on disk, by directory name
    remote,          \* the repositories of the emacs-straight organization
    events,          \* commands and API calls of this run, with exit status
    status,          \* exit status of the run, -1 while it runs
    diag,            \* what the run wrote about its failure
    hadDir,          \* packages whose repo_dir.is_dir() held at line 181
    nothingStaged,   \* repositories where stage_and_commit logged (no changes)
    updated,         \* packages whose update step (lines 188-200) completed
    manifestUpdated, \* the manifest update step (lines 225-229) completed
    upstreamChanged, \* make externals of this run changed gnu-elpa/packages
    prevArgs         \* args of the previous run

vars ==
    <<pc, run, args, i, packages, existing_repos, commit_data, build_script,
      packages_dir, local, remote, events, status, diag, hadDir, nothingStaged,
      updated, manifestUpdated, upstreamChanged, prevArgs>>

Flags == {"--skip-mirror-pulls", "--skip-mirror-pushes"}
MANIFEST == "gnu-elpa-mirror"
MirrorNames == {"bar", "foo", MANIFEST}
UpstreamDirs == {"gnu-elpa", "emacs"}

\* Savannah's repositories always exist and have a history.
UpstreamRemote == [exists |-> TRUE, master |-> Commit(EmptyTree, NoMsg)]
RemoteOf(d) == IF d \in DOMAIN remote THEN remote[d] ELSE UpstreamRemote

\* ------------------------------------------------------ clone_git_repo

CloneCmd(git_url, repo_dir, shallow, all_branches) ==
    <<"git", "clone">>
    \o (IF shallow
        THEN <<"--depth", "1">> \o (IF all_branches THEN <<"--no-single-branch">> ELSE << >>)
        ELSE << >>)
    \o git_url \o <<repo_dir>>

\* A clone failure that is re-raised whatever the URL.
CloneFailure_reraised(cmd, private_url) ==
    [fail |-> "raise", diag |-> CalledProcessError(cmd)]

CloneFailure(cmd, private_url) ==
    IF private_url
    THEN [fail |-> "die", diag |-> die("cloning repository failed (details omitted for security)")]
    ELSE [fail |-> "raise", diag |-> CalledProcessError(cmd)]

\* clone_git_repo(git_url, repo_dir, ...) with L the working copy at repo_dir
\* and R the repository at git_url: every outcome the call can have,
\* [loc: the working copy after, ev: the commands run, fail, diag].
clone_git_repo(git_url, d, L, R, shallow, all_branches, private_url) ==
    LET cmd == CloneCmd(git_url, d, shallow, all_branches)
        out(loc, ev, fail, dg) == [loc |-> loc, ev |-> ev, fail |-> fail, diag |-> dg]
        raised(ev, c) == out(L, ev, "raise", CalledProcessError(c))
        sym(rc) == Event("symbolic-ref", d, rc)
        fetched == [L EXCEPT !.origin = R.master]
        reset == [fetched EXCEPT !.head = R.master,
                                 !.worktree = ResetHard(L.worktree, L.head, R.master)]
    IN  IF ~L.exists
        THEN {out([exists |-> TRUE, worktree |-> Checkout(R.master),
                   head |-> R.master, origin |-> R.master],
                  <<Event("clone", d, 0)>>, "none", << >>) : x \in {y \in {1} : R.exists}}
             \cup {out(L, <<Event("clone", d, 1)>>,
                       CloneFailure(cmd, private_url).fail,
                       CloneFailure(cmd, private_url).diag)}
        ELSE {raised(<<sym(1)>>, <<"git", "symbolic-ref", "HEAD">>),
              raised(<<sym(0), Event("fetch", d, 1)>>, <<"git", "fetch">>)}
             \cup (IF ~R.exists THEN {}
                   ELSE IF R.master.born
                   THEN {out(reset,
                             <<sym(0), Event("fetch", d, 0), Event("show-ref", d, 0),
                               Event("reset", d, 0)>>, "none", << >>),
                         raised(<<sym(0), Event("fetch", d, 0), Event("show-ref", d, 0),
                                  Event("reset", d, 1)>>,
                                <<"git", "reset", "--hard", "refs/remotes/origin/master">>)}
                   ELSE {out(fetched,
                             <<sym(0), Event("fetch", d, 0), Event("show-ref", d, 1)>>,
                             "none", << >>)})

\* ---------------------------------------------------- stage_and_commit

\* "{}\n\nTimestamp: {}\nGNU ELPA commit: {}\nEmacs commit: {}".format(...)
CommitMessage(message, data) ==
    [summary |-> message, timestamp |-> data.timestamp,
     gnu_elpa_commit |-> data.gnu_elpa_commit, emacs_commit |-> data.emacs_commit]

CommitCmd(message, data) ==
    <<"git", "-c", "user.name=GNU ELPA Mirror Bot", "-c", "user.email=emacs-devel@gnu.org",
      "commit", "-m">> \o message
    \o <<"Timestamp: ", ToString(data.timestamp), "GNU ELPA commit: ", data.gnu_elpa_commit,
         "Emacs commit: ", data.emacs_commit>>

\* A stage_and_commit that commits without looking at the staged-changes check.
stage_and_commit_always(d, L, message, data) ==
    LET index == IndexOf(L.worktree)
        anything_staged == index # L.head.tree
    IN  {[loc |-> [L EXCEPT !.head = Commit(index, CommitMessage(message, data))],
          ev |-> <<Event("add", d, 0), Event("diff", d, IF anything_staged THEN 1 ELSE 0),
                   Event("commit", d, 0)>>,
          fail |-> "none", diag |-> << >>, staged |-> anything_staged]}

\* A stage_and_commit whose git add lacks check=True: its failure is ignored.
stage_and_commit_unchecked(d, L, message, data) ==
    LET index == IndexOf(L.worktree)
        anything_staged == index # L.head.tree
    IN  {[loc |-> L,
          ev |-> <<Event("add", d, rc), Event("diff", d, 0)>>,
          fail |-> "none", diag |-> << >>, staged |-> FALSE] : rc \in {0, 1}}
        \cup {[loc |-> [L EXCEPT !.head = Commit(index, CommitMessage(message, data))],
               ev |-> <<Event("add", d, 0), Event("diff", d, 1), Event("commit", d, 0)>>,
               fail |-> "none", diag |-> << >>, staged |-> TRUE] : x \in {y \in {1} : anything_staged}}

\* stage_and_commit(repo_dir, message, data) on the working copy L:
\* every outcome, [loc, ev, fail, diag, staged].
stage_and_commit(d, L, message, data) ==
    LET index == IndexOf(L.worktree)
        anything_staged == index # L.head.tree
        out(loc, ev, fail, dg) ==
            [loc |-> loc, ev |-> ev, fail |-> fail, diag |-> dg, staged |-> anything_staged]
        add(rc) == Event("add", d, rc)
        diff == Event("diff", d, IF anything_staged THEN 1 ELSE 0)
    IN  {out(L, <<add(1)>>, "raise", CalledProcessError(<<"git", "add", "--all", "--force">>))}
        \cup (IF anything_staged
              THEN {out([L EXCEPT !.head = Commit(index, CommitMessage(message, data))],
                        <<add(0), diff, Event("commit", d, 0)>>, "none", << >>),
                    out(L, <<add(0), diff, Event("commit", d, 1)>>, "raise",
                        CalledProcessError(CommitCmd(message, data)))}
              ELSE {out(L, <<add(0), diff>>, "none", << >>)})

\* A push that reports success and leaves the remote branch where it was.
git_push_lost(d) ==
    {[loc |-> local[d], rem |-> remote[d], ev |-> <<Event("push", d, 0)>>,
      fail |-> "none", diag |-> << >>]}

\* git push origin master in repo_dir: [loc, rem, ev, fail, diag].
git_push(d) ==
    LET L == local[d]
        R == remote[d]
    IN  {[loc |-> [L EXCEPT !.origin = L.head], rem |-> [R EXCEPT !.master = L.head],
          ev |-> <<Event("push", d, 0)>>, fail |-> "none", diag |-> << >>]
            : x \in {y \in {1} : L.exists /\ L.head.born /\ R.exists}}
        \cup {[loc |-> L, rem |-> R, ev |-> <<Event("push", d, 1)>>, fail |-> "raise",
               diag |-> CalledProcessError(<<"git", "push", "origin", "master">>)]}

\* The end of a step: its commands are logged; a failure ends the run with
\* exit status 1, otherwise control moves to `next`.
Finish(o, next) ==
    /\ events' = events \o o.ev
    /\ IF o.fail = "none"
       THEN pc' = next /\ status' = status /\ diag' = diag
       ELSE pc' = "aborted" /\ status' = 1 /\ diag' = o.diag


\* ------------------------------------------------------------ mirror()

NoData == [timestamp |-> 0, gnu_elpa_commit |-> "", emacs_commit |-> ""]

\* Lines 114-117: clone/update GNU ELPA.
CloneGnuElpa ==
    /\ pc = "clone_elpa"
    /\ \E o \in clone_git_repo(GNU_ELPA_GIT_URL, "gnu-elpa", local["gnu-elpa"],
                                RemoteOf("gnu-elpa"), FALSE, TRUE, FALSE) :
          /\ local' = [local EXCEPT !["gnu-elpa"] = o.loc]
          /\ Finish(o, "clone_emacs")
    /\ UNCHANGED <<run, args, i, packages, existing_repos, commit_data, build_script,
                   packages_dir, remote, hadDir, nothingStaged, updated, manifestUpdated,
                   upstreamChanged, prevArgs>>

\* Lines 118-121: clone/update Emacs.
CloneEmacs ==
    /\ pc = "clone_emacs"
    /\ \E o \in clone_git_repo(EMACS_GIT_URL, "emacs", local["emacs"],
                                RemoteOf("emacs"), FALSE, FALSE, FALSE) :
          /\ local' = [local EXCEPT !["emacs"] = o.loc]
          /\ Finish(o, "rev_parse")
    /\ UNCHANGED <<run, args, i, packages, existing_repos, commit_data, build_script,
                   packages_dir, remote, hadDir, nothingStaged, updated, manifestUpdated,
                   upstreamChanged, prevArgs>>

\* Lines 122-136: the timestamp and the two git rev-parse HEAD.
CheckCommits ==
    /\ pc = "rev_parse"
    /\ \E o \in
          {[ev |-> <<Event("rev-parse", "gnu-elpa", 1)>>, fail |-> "raise",
            diag |-> CalledProcessError(<<"git", "rev-parse", "HEAD">>)],
           [ev |-> <<Event("rev-parse", "gnu-elpa", 0), Event("rev-parse", "emacs", 1)>>,
            fail |-> "raise", diag |-> CalledProcessError(<<"git", "rev-parse", "HEAD">>)],
           [ev |-> <<Event("rev-parse", "gnu-elpa", 0), Event("rev-parse", "emacs", 0)>>,
            fail |-> "none", diag |-> << >>]} :
          /\ Finish(o, "patch")
          /\ commit_data' =
                IF o.fail = "none"
                THEN [timestamp |-> run, gnu_elpa_commit |-> "elpa-head",
                      emacs_commit |-> "emacs-head"]
                ELSE commit_data
    /\ UNCHANGED <<run, args, i, packages, existing_repos, build_script, packages_dir,
                   local, remote, hadDir, nothingStaged, updated, manifestUpdated,
                   upstreamChanged, prevArgs>>

\* Lines 137-147: git checkout of the build script (its exit status is not
\* looked at), then the textual patch, which leaves a patched file patched.
PatchBuildScript ==
    /\ pc = "patch"
    /\ \E rc \in {0, 1} :
          /\ events' = events \o <<Event("checkout", "gnu-elpa", rc)>>
          /\ build_script' = "patched"
    /\ pc' = "externals"
    /\ UNCHANGED <<run, args, i, packages, existing_repos, commit_data, packages_dir,
                   local, remote, status, diag, hadDir, nothingStaged, updated,
                   manifestUpdated, upstreamChanged, prevArgs>>

\* What make externals can leave in gnu-elpa/packages when upstream moved
\* since the previous run: the content of package foo differs.
ChangedUpstream(dir) ==
    IF "foo" \in DOMAIN dir /\ dir["foo"].kind = "dir" /\ "new.el" \notin DOMAIN dir["foo"].kids
    THEN {With(dir, "foo", Dir(With(dir["foo"].kids, "new.el", File(MaxSize))))}
    ELSE {}

\* Lines 148-149: make externals.  The first run finds the packages
\* directory as Init chose it; a later run finds it as it was or changed.
MakeExternals ==
    /\ pc = "externals"
    /\ \/ /\ events' = events \o <<Event("make", "gnu-elpa", 1)>>
          /\ pc' = "aborted" /\ status' = 1
          /\ diag' = CalledProcessError(<<"make", "externals">>)
          /\ UNCHANGED <<packages_dir, upstreamChanged>>
       \/ /\ events' = events \o <<Event("make", "gnu-elpa", 0)>>
          /\ pc' = "list_repos"
          /\ \E new \in {packages_dir}
                        \cup (IF run > 1 THEN ChangedUpstream(packages_dir) ELSE {}) :
                /\ packages_dir' = new
                /\ upstreamChanged' = (new # packages_dir)
          /\ UNCHANGED <<status, diag>>
    /\ UNCHANGED <<run, args, i, packages, existing_repos, commit_data, build_script,
                   local, remote, hadDir, nothingStaged, updated, manifestUpdated,
                   prevArgs>>

\* Lines 150-153: the one listing of the organization's repositories.
ListRepos ==
    /\ pc = "list_repos"
    /\ existing_repos' = {r \in DOMAIN remote : remote[r].exists}
    /\ events' = events \o <<Event("get_repos", "", 0)>>
    /\ pc' = "enumerate"
    /\ UNCHANGED <<run, args, i, packages, commit_data, build_script, packages_dir,
                   local, remote, status, diag, hadDir, nothingStaged, updated,
                   manifestUpdated, upstreamChanged, prevArgs>>

\* An enumeration that forgets the reserved name.
EnumeratedPackages_all(dir) == SelectSeq(SortedNames(dir), LAMBDA n : is_dir(dir[n]))

\* Lines 154-161: the subdirectories of gnu-elpa/packages, sorted, without
\* the reserved name.
EnumeratedPackages(dir) ==
    SelectSeq(SortedNames(dir), LAMBDA n : is_dir(dir[n]) /\ n # "gnu-elpa-mirror")

\* Lines 154-164.
EnumeratePackages ==
    /\ pc = "enumerate"
    /\ packages' = EnumeratedPackages(packages_dir)
    /\ pc' = IF Len(packages') > 0 THEN "provision" ELSE "manifest_provision"
    /\ i' = 1
    /\ UNCHANGED <<run, args, existing_repos, commit_data, build_script, packages_dir,
                   local, remote, events, status, diag, hadDir, nothingStaged, updated,
                   manifestUpdated, upstreamChanged, prevArgs>>

\* org.create_repo(name, ..., auto_init=False): [rem, ev, fail, diag].  The
\* API refuses a name that is taken.
create_repo(name) ==
    IF remote[name].exists
    THEN [rem |-> remote[name], ev |-> <<Event("create_repo", name, 1)>>,
          fail |-> "raise", diag |-> OtherError("github.GithubException")]
    ELSE [rem |-> [exists |-> TRUE, master |-> Unborn],
          ev |-> <<Event("create_repo", name, 0)>>, fail |-> "none", diag |-> << >>]

\* A provisioning that does not consult the listing.
EnsureRepo_unlisted(name) == create_repo(name)

\* Lines 169-180 and 211-220: create the repository the listing lacks.
EnsureRepo(name) ==
    IF name \notin existing_repos
    THEN create_repo(name)
    ELSE [rem |-> remote[name], ev |-> << >>, fail |-> "none", diag |-> << >>]

\* A line 181 that never skips.
SkipPull_never(package) == FALSE

\* Line 181: whether the clone/update of a package mirror is skipped.
SkipPull(package) == "--skip-mirror-pulls" \in args /\ local[package].exists

\* A for loop over packages: where control goes after iteration i.
LoopNext(phase, after) == IF i < Len(packages) THEN phase ELSE after
LoopIndex == IF i < Len(packages) THEN i + 1 ELSE 1

\* Lines 165-185, one iteration of the loop.
ProvisionMirror ==
    /\ pc = "provision" /\ i <= Len(packages)
    /\ LET package == packages[i]
           c == EnsureRepo(package)
       IN  /\ hadDir' = IF local[package].exists THEN hadDir \cup {package} ELSE hadDir
           /\ remote' = [remote EXCEPT ![package] = c.rem]
           /\ IF c.fail # "none" \/ SkipPull(package)
              THEN /\ Finish(c, LoopNext("provision", "update"))
                   /\ i' = IF c.fail # "none" THEN i ELSE LoopIndex
                   /\ UNCHANGED local
              ELSE \E o \in clone_git_repo(MirrorUrl(package), package, local[package],
                                           c.rem, TRUE, FALSE, TRUE) :
                      /\ local' = [local EXCEPT ![package] = o.loc]
                      /\ Finish([o EXCEPT !.ev = c.ev \o o.ev],
                                LoopNext("provision", "update"))
                      /\ i' = IF o.fail # "none" THEN i ELSE LoopIndex
    /\ UNCHANGED <<run, args, packages, existing_repos, commit_data, build_script,
                   packages_dir, nothingStaged, updated, manifestUpdated,
                   upstreamChanged, prevArgs>>

\* Lines 191-200 on the working copy L of `package`: delete_contents, the
\* snapshot copy and stage_and_commit; every outcome, [loc, ev, fail, diag,
\* staged, synced].
UpdateOutcomes(package, L) ==
    LET dc == delete_contents(L.worktree)
        cp == SnapshotCopy(packages_dir[package].kids, dc.dir)
        del(rc) == Event("delete_contents", package, rc)
        stop(tree, ev, what) ==
            [loc |-> [L EXCEPT !.worktree = tree], ev |-> ev, fail |-> "raise",
             diag |-> OtherError(what), staged |-> FALSE, synced |-> FALSE]
    IN  IF ~L.exists THEN {stop(L.worktree, <<del(1)>>, "FileNotFoundError")}
        ELSE IF ~dc.ok THEN {stop(dc.dir, <<del(1)>>, "OSError")}
        ELSE IF ~cp.ok
        THEN {stop(cp.dir, <<del(0), Event("copy", package, 1)>>, "OSError")}
        ELSE {[loc |-> o.loc, ev |-> <<del(0), Event("copy", package, 0)>> \o o.ev,
               fail |-> o.fail, diag |-> o.diag, staged |-> o.staged, synced |-> TRUE]
                : o \in stage_and_commit(package, [L EXCEPT !.worktree = cp.dir],
                                         <<"Update ", package>>, commit_data)}

\* A line 201 that ignores the flag.
PushesWanted_always == TRUE

\* Whether line 201 lets the package pushes run.
PushesWanted == "--skip-mirror-pushes" \notin args

\* Lines 187-200, one iteration of the loop.
UpdatePackage ==
    /\ pc = "update" /\ i <= Len(packages)
    /\ LET package == packages[i]
       IN  \E o \in UpdateOutcomes(package, local[package]) :
              /\ local' = [local EXCEPT ![package] = o.loc]
              /\ Finish(o, LoopNext("update",
                                    IF PushesWanted THEN "push" ELSE "manifest_provision"))
              /\ i' = IF o.fail # "none" THEN i ELSE LoopIndex
              /\ updated' = IF o.synced THEN updated \cup {package} ELSE updated
              /\ nothingStaged' =
                    IF o.fail = "none" /\ ~o.staged
                    THEN nothingStaged \cup {package} ELSE nothingStaged
    /\ UNCHANGED <<run, args, packages, existing_repos, commit_data, build_script,
                   packages_dir, remote, hadDir, manifestUpdated, upstreamChanged,
                   prevArgs>>

\* Lines 203-207, one iteration of the loop.
PushPackage ==
    /\ pc = "push" /\ i <= Len(packages)
    /\ LET package == packages[i]
       IN  \E o \in git_push(package) :
              /\ local' = [local EXCEPT ![package] = o.loc]
              /\ remote' = [remote EXCEPT ![package] = o.rem]
              /\ Finish(o, LoopNext("push", "manifest_provision"))
              /\ i' = IF o.fail # "none" THEN i ELSE LoopIndex
    /\ UNCHANGED <<run, args, packages, existing_repos, commit_data, build_script,
                   packages_dir, hadDir, nothingStaged, updated, manifestUpdated,
                   upstreamChanged, prevArgs>>

\* Lines 208-223: create the manifest repository if the listing lacks it,
\* then clone/update it.
ProvisionManifest ==
    /\ pc = "manifest_provision"
    /\ LET c == EnsureRepo(MANIFEST)
       IN  /\ remote' = [remote EXCEPT ![MANIFEST] = c.rem]
           /\ IF c.fail # "none"
              THEN Finish(c, "manifest_update") /\ UNCHANGED local
              ELSE \E o \in clone_git_repo(MirrorUrl(MANIFEST), MANIFEST, local[MANIFEST],
                                           c.rem, TRUE, FALSE, TRUE) :
                      /\ local' = [local EXCEPT ![MANIFEST] = o.loc]
                      /\ Finish([o EXCEPT !.ev = c.ev \o o.ev], "manifest_update")
    /\ UNCHANGED <<run, args, i, packages, existing_repos, commit_data, build_script,
                   packages_dir, hadDir, nothingStaged, updated, manifestUpdated,
                   upstreamChanged, prevArgs>>

\* Lines 226-228: open(repo_dir / package, "w") for every package leaves an
\* empty regular file of that name.
RECURSIVE WriteMarkers(_, _)
WriteMarkers(dir, names) ==
    IF names = << >> THEN dir
    ELSE WriteMarkers(With(dir, Head(names), File(0)), Tail(names))

\* Lines 225-229 on the working copy L of the manifest: every outcome.
ManifestOutcomes(L) ==
    LET dc == delete_contents(L.worktree)
        del(rc) == Event("delete_contents", MANIFEST, rc)
    IN  IF ~dc.ok
        THEN {[loc |-> [L EXCEPT !.worktree = dc.dir], ev |-> <<del(1)>>, fail |-> "raise",
               diag |-> OtherError("OSError"), staged |-> FALSE, synced |-> FALSE]}
        ELSE {[loc |-> o.loc, ev |-> <<del(0)>> \o o.ev, fail |-> o.fail, diag |-> o.diag,
               staged |-> o.staged, synced |-> TRUE]
                : o \in stage_and_commit(MANIFEST,
                                         [L EXCEPT !.worktree = WriteMarkers(dc.dir, packages)],
                                         <<"Update mirror list">>, commit_data)}

\* Lines 224-229.
UpdateManifest ==
    /\ pc = "manifest_update"
    /\ \E o \in ManifestOutcomes(local[MANIFEST]) :
          /\ local' = [local EXCEPT ![MANIFEST] = o.loc]
          /\ Finish(o, "manifest_push")
          /\ manifestUpdated' = o.synced
          /\ nothingStaged' =
                IF o.fail = "none" /\ ~o.staged
                THEN nothingStaged \cup {MANIFEST} ELSE nothingStaged
    /\ UNCHANGED <<run, args, i, packages, existing_repos, commit_data, build_script,
                   packages_dir, remote, hadDir, updated, upstreamChanged, prevArgs>>

\* Lines 230-232: the manifest push, then the script ends with status 0.
PushManifest ==
    /\ pc = "manifest_push"
    /\ \E o \in git_push(MANIFEST) :
          /\ local' = [local EXCEPT ![MANIFEST] = o.loc]
          /\ remote' = [remote EXCEPT ![MANIFEST] = o.rem]
          /\ events' = events \o o.ev
          /\ IF o.fail = "none"
             THEN pc' = "done" /\ status' = 0 /\ diag' = diag
             ELSE pc' = "aborted" /\ status' = 1 /\ diag' = o.diag
    /\ UNCHANGED <<run, args, i, packages, existing_repos, commit_data, build_script,
                   packages_dir, hadDir, nothingStaged, updated, manifestUpdated,
                   upstreamChanged, prevArgs>>

\* The script is started again after a run that completed (the runs in a
\* row of the model are complete runs).
NextRun ==
    /\ pc = "done" /\ run < MaxRuns
    /\ run' = run + 1
    /\ args' \in SUBSET Flags
    /\ prevArgs' = args
    /\ pc' = "clone_elpa"
    /\ i' = 1
    /\ packages' = << >>
    /\ existing_repos' = {}
    /\ commit_data' = NoData
    /\ events' = << >>
    /\ status' = -1
    /\ diag' = << >>
    /\ hadDir' = {}
    /\ nothingStaged' = {}
    /\ updated' = {}
    /\ manifestUpdated' = FALSE
    /\ upstreamChanged' = FALSE
    /\ UNCHANGED <<build_script, packages_dir, local, remote>>


\* ------------------------------------------------------ initial states

\* An entry that is not there, for building directories entry by entry.
Absent == [kind |-> "absent", size |-> 0, target |-> "", to |-> "", kids |-> NoKids]
Prune(f) == [n \in {m \in DOMAIN f : f[m].kind # "absent"} |-> f[n]]

Sizes == 0..MaxSize
OneFile == [n \in {"x"} |-> File(1)]
LinkToFile == Symlink("foo.el", "file", 1, NoKids)
LinkToDir == Symlink("sub", "dir", 0, OneFile)
LinkToNothing == Symlink("gone", "none", 0, NoKids)

\* What an earlier run left in a package mirror, and in the manifest.
OldData == [timestamp |-> 0, gnu_elpa_commit |-> "elpa-old", emacs_commit |-> "emacs-old"]
OldPackageTree ==
    [n \in {"old.el", "sub", "link"} |->
        IF n = "old.el" THEN File(1) ELSE IF n = "sub" THEN Dir(OneFile) ELSE LinkToDir]
OldManifestTree == [n \in {"foo", "old.el"} |-> File(0)]
OldCommit(name) ==
    IF name = MANIFEST
    THEN Commit(OldManifestTree, CommitMessage(<<"Update mirror list">>, OldData))
    ELSE Commit(OldPackageTree, CommitMessage(<<"Update ", name>>, OldData))
\* A commit an earlier run made and did not push.
UnpushedCommit(name) ==
    Commit([n \in {"foo.el"} |-> File(0)], CommitMessage(<<"Update ", name>>, OldData))

Clone(head, origin) ==
    [exists |-> TRUE, worktree |-> Checkout(head), head |-> head, origin |-> origin]
Repo(master) == [exists |-> TRUE, master |-> master]
NoRepo == [exists |-> FALSE, master |-> Unborn]

\* The mirror never existed / exists and was never cloned here / exists
\* and is cloned / was created and never pushed to / holds an unpushed commit.
Fresh == [rem |-> NoRepo, loc |-> NoDir]
Remote(name) == [rem |-> Repo(OldCommit(name)), loc |-> NoDir]
Cloned(name) == [rem |-> Repo(OldCommit(name)), loc |-> Clone(OldCommit(name), OldCommit(name))]
Created == [rem |-> Repo(Unborn), loc |-> NoDir]
Ahead(name) ==
    [rem |-> Repo(OldCommit(name)), loc |-> Clone(UnpushedCommit(name), OldCommit(name))]

InitWith(dirs, foo, bar, manifest, cache) ==
    /\ pc = "clone_elpa"
    /\ run = 1
    /\ args \in SUBSET Flags
    /\ i = 1
    /\ packages = << >>
    /\ existing_repos = {}
    /\ commit_data = NoData
    /\ build_script = "original"
    /\ packages_dir \in dirs
    /\ \E f \in foo, b \in bar, m \in manifest, c \in cache :
          /\ local = [d \in UpstreamDirs \cup MirrorNames |->
                        IF d = "foo" THEN f.loc
                        ELSE IF d = "bar" THEN b.loc
                        ELSE IF d = MANIFEST THEN m.loc
                        ELSE IF c THEN Clone(UpstreamRemote.master, UpstreamRemote.master)
                        ELSE NoDir]
          /\ remote = [d \in MirrorNames |->
                        IF d = "foo" THEN f.rem ELSE IF d = "bar" THEN b.rem ELSE m.rem]
    /\ events = << >>
    /\ status = -1
    /\ diag = << >>
    /\ hadDir = {}
    /\ nothingStaged = {}
    /\ updated = {}
    /\ manifestUpdated = FALSE
    /\ upstreamChanged = FALSE
    /\ prevArgs = {}

\* gnu-elpa/packages for the runs in a row: package foo, with or without
\* its own .git and an empty directory, package bar or a stray file bar,
\* maybe a directory with the reserved name.
FooTrees ==
    {[n \in {"foo.el"} |-> File(1)],
     [n \in {".git", "foo.el", "sub"} |->
        IF n = ".git" THEN GitDir ELSE IF n = "foo.el" THEN File(1) ELSE Dir(NoKids)]}
BarTree == [n \in {"foo.el"} |-> File(1)]
PackagesDirs ==
    {Prune([n \in {"bar", "foo", "gnu-elpa-mirror"} |->
              IF n = "foo" THEN Dir(t) ELSE IF n = "bar" THEN b ELSE r])
        : t \in FooTrees, b \in {File(1), Dir(BarTree)}, r \in {Absent, Dir(BarTree)}}

Init ==
    InitWith(PackagesDirs, {Fresh, Created, Cloned("foo"), Ahead("foo")},
             {Fresh, Cloned("bar")}, {Fresh, Remote(MANIFEST), Cloned(MANIFEST)}, BOOLEAN)

Next ==
    \/ CloneGnuElpa
    \/ CloneEmacs
    \/ CheckCommits
    \/ PatchBuildScript
    \/ MakeExternals
    \/ ListRepos
    \/ EnumeratePackages
    \/ ProvisionMirror
    \/ UpdatePackage
    \/ PushPackage
    \/ ProvisionManifest
    \/ UpdateManifest
    \/ PushManifest
    \/ NextRun

Spec == Init /\ [][Next]_vars

\* One run over one package whose directory holds any mix of files,
\* directories and symbolic links, one level deep.
Leaves == {File(1), LinkToFile, LinkToDir, LinkToNothing}
PackageTrees ==
    {Prune([n \in {".git", "foo.el", "link", "sub"} |->
              IF n = ".git" THEN g ELSE IF n = "foo.el" THEN f ELSE IF n = "link" THEN l ELSE d])
        : g \in {Absent, GitDir},
          f \in {Absent} \cup {File(s) : s \in Sizes},
          l \in {Absent, LinkToFile, LinkToDir, LinkToNothing},
          d \in {Absent, Dir(NoKids)} \cup {Dir([n \in {"x"} |-> k]) : k \in Leaves}}

InitTree ==
    InitWith({[n \in {"foo"} |-> Dir(t)] : t \in PackageTrees}, {Fresh, Cloned("foo")},
             {Fresh}, {Cloned(MANIFEST)}, {FALSE})

NextOnce ==
    \/ CloneGnuElpa
    \/ CloneEmacs
    \/ CheckCommits
    \/ PatchBuildScript
    \/ MakeExternals
    \/ ListRepos
    \/ EnumeratePackages
    \/ ProvisionMirror
    \/ UpdatePackage
    \/ PushPackage
    \/ ProvisionManifest
    \/ UpdateManifest
    \/ PushManifest

SpecTree == InitTree /\ [][NextOnce]_vars


\* -------------------------------------------------------------- claims

Range(seq) == {seq[k] : k \in DOMAIN seq}
Ran(cmd, repo) == \E k \in DOMAIN events : events[k].cmd = cmd /\ events[k].repo = repo
Count(cmd, repo) ==
    Cardinality({k \in DOMAIN events : events[k].cmd = cmd /\ events[k].repo = repo})
LastEvent == events[Len(events)]
\* Whether `part` occurs in `whole` as a run of consecutive elements.
Occurs(part, whole) ==
    \E k \in 0..(Len(whole) - Len(part)) : \A j \in 1..Len(part) : whole[k + j] = part[j]

GitCommands ==
    {"clone", "symbolic-ref", "fetch", "show-ref", "reset", "rev-parse", "checkout",
     "add", "diff", "commit", "push"}
PullCommands == {"clone", "symbolic-ref", "fetch", "show-ref", "reset"}
\* The for loop of lines 187-200 ran to its end.
UpdateLoopOver == pc \in {"push", "manifest_provision", "manifest_update", "manifest_push", "done"}

\* C1: once the update step of a package has completed, the entries of its
\* working copy other than .git are exactly the entries of the upstream
\* package directory other than .git.
C1_ContentEqualsUpstream ==
    \A p \in updated :
        DOMAIN local[p].worktree \ {".git"} = DOMAIN packages_dir[p].kids \ {".git"}

\* C1 witness: a working copy that held the stale old.el, sub and link was
\* synced to an upstream directory that has its own .git, foo.el and sub.
C1_Witness ==
    /\ "foo" \in updated /\ "foo" \in hadDir
    /\ "--skip-mirror-pulls" \in args
    /\ DOMAIN packages_dir["foo"].kids = {".git", "foo.el", "sub"}
    /\ DOMAIN local["foo"].worktree = {".git", "foo.el", "sub"}

\* C2 as stated: with --skip-mirror-pushes no git push is invoked at all,
\* neither for a package mirror nor for the manifest repository.
C2_NoPushAtAll ==
    "--skip-mirror-pushes" \in args => \A k \in DOMAIN events : events[k].cmd # "push"

\* C2 amended: with --skip-mirror-pushes no git push is invoked for any
\* package mirror; the manifest repository is still pushed, so a run that
\* completes has pushed exactly the manifest.
C2_NoPackagePush ==
    "--skip-mirror-pushes" \in args =>
        /\ \A k \in DOMAIN events : events[k].cmd = "push" => events[k].repo = MANIFEST
        /\ pc = "done" => Count("push", MANIFEST) = 1

\* C2 witness: a completed run with the flag that committed a change to foo.
C2_Witness ==
    /\ pc = "done" /\ "--skip-mirror-pushes" \in args
    /\ Ran("commit", "foo") /\ ~Ran("push", "foo") /\ Ran("push", MANIFEST)

\* C3 as stated: a nonzero exit of any git command other than the staged
\* changes check ends the run there, and nothing runs after it.
C3_OnlyDiffExempt ==
    \A k \in DOMAIN events :
        (events[k].cmd \in GitCommands \ {"diff"} /\ events[k].rc # 0)
            => (pc = "aborted" /\ status = 1 /\ k = Len(events))

\* C3 amended: a nonzero exit of any git command other than the staged
\* changes check, the show-ref query of clone_git_repo and the checkout of
\* the build script ends the run there with status 1, and nothing runs
\* after it.
C3_CheckedCommandsAbort ==
    \A k \in DOMAIN events :
        (events[k].cmd \in GitCommands \ {"diff", "show-ref", "checkout"} /\ events[k].rc # 0)
            => (pc = "aborted" /\ status = 1 /\ k = Len(events))

\* C3 witness: a run went on after show-ref and the staged-changes check
\* exited nonzero, and ended on a failed commit.
C3_Witness ==
    /\ pc = "aborted" /\ LastEvent.cmd = "commit" /\ LastEvent.rc = 1
    /\ \E k \in DOMAIN events : events[k].cmd = "show-ref" /\ events[k].rc = 1
    /\ \E k \in DOMAIN events : events[k].cmd = "diff" /\ events[k].rc = 1

\* C4 as stated: for a package with nothing staged neither git commit nor
\* git push is invoked in that run.
C4_NoCommitNoPush ==
    \A p \in nothingStaged \cap Range(packages) : ~Ran("commit", p) /\ ~Ran("push", p)

\* C4 amended: for a package with nothing staged the staged-changes check
\* exits 0, the run does not end there and no git commit is invoked for
\* the package; its git push is not skipped: a run without
\* --skip-mirror-pushes that completes has pushed the package once.
C4_NoCommitStillPushed ==
    \A p \in nothingStaged \cap Range(packages) :
        /\ ~Ran("commit", p)
        /\ \E k \in DOMAIN events :
              /\ events[k] = Event("diff", p, 0)
              /\ (k = Len(events) => pc # "aborted")
        /\ (pc = "done" /\ "--skip-mirror-pushes" \notin args) => Count("push", p) = 1

\* C4 witness: a completed run that found nothing staged for foo and
\* pushed foo all the same.
C4_Witness ==
    /\ pc = "done" /\ "foo" \in nothingStaged
    /\ ~Ran("commit", "foo") /\ Ran("push", "foo")

\* C5: with --skip-mirror-pulls, a package whose working directory was
\* there gets no clone, symbolic-ref, fetch, show-ref or reset, and once the
\* update loop is over its delete_contents, copy and git add have run.
C5_SkipPullsStillUpdates ==
    \A p \in Range(packages) :
        ("--skip-mirror-pulls" \in args /\ p \in hadDir) =>
            /\ \A k \in DOMAIN events :
                  events[k].repo = p => events[k].cmd \notin PullCommands
            /\ UpdateLoopOver =>
                  Ran("delete_contents", p) /\ Ran("copy", p) /\ Ran("add", p)

\* C5 witness: a completed run with the flag over an existing working
\* directory of foo that was emptied, refilled and committed.
C5_Witness ==
    /\ pc = "done" /\ "--skip-mirror-pulls" \in args /\ "foo" \in hadDir
    /\ Ran("delete_contents", "foo") /\ Ran("copy", "foo") /\ Ran("commit", "foo")

\* C6: in a run that follows a completed run which pushed its commits,
\* with gnu-elpa/packages unchanged, every staged-changes check finds
\* nothing staged and no git commit is invoked, in any package mirror or
\* in the manifest repository.
C6_SecondRunCommitsNothing ==
    (run > 1 /\ ~upstreamChanged /\ "--skip-mirror-pushes" \notin prevArgs) =>
        \A k \in DOMAIN events :
            /\ events[k].cmd # "commit"
            /\ events[k].cmd = "diff" => events[k].rc = 0

\* C6 witness: two full runs in a row; the second, with a later timestamp,
\* completed and found nothing staged in foo, bar and the manifest, whose
\* head commits are those of the first run.
C6_Witness ==
    /\ run = 2 /\ pc = "done" /\ args = {} /\ prevArgs = {} /\ ~upstreamChanged
    /\ {"bar", "foo", MANIFEST} \subseteq nothingStaged
    /\ commit_data.timestamp = 2
    /\ local["foo"].head.msg.timestamp = 1
    /\ local[MANIFEST].head.msg.timestamp = 1

\* C7: when the run ends on a failed clone or push of a package mirror or
\* of the manifest repository, its status is nonzero and what it wrote
\* holds neither the access token nor the repository's URL.
C7_NoCredentialInDiagnostic ==
    (/\ pc = "aborted" /\ events # << >>
     /\ LastEvent.cmd \in {"clone", "push"} /\ LastEvent.repo \in MirrorNames
     /\ LastEvent.rc # 0) =>
        /\ status # 0
        /\ diag # << >>
        /\ ACCESS_TOKEN \notin Range(diag)
        /\ ~Occurs(MirrorUrl(LastEvent.repo), diag)

\* C7 witness: the clone of the mirror of foo failed and the run died
\* with the generic message.
C7_Witness ==
    /\ pc = "aborted" /\ status = 1
    /\ LastEvent = Event("clone", "foo", 1)
    /\ diag = die("cloning repository failed (details omitted for security)")

\* C8 as stated: every symbolic link of the upstream package directory, at
\* the top level or in a subdirectory, is the same symbolic link in the
\* working copy once the update step has completed, and the copy of a
\* package never fails.
C8_SymlinksPreserved ==
    /\ \A k \in DOMAIN events : events[k].cmd = "copy" => events[k].rc = 0
    /\ \A p \in updated :
          LET src == packages_dir[p].kids
              dst == local[p].worktree
          IN  \A n \in DOMAIN src \ {".git"} :
                 /\ is_symlink(src[n]) => (n \in DOMAIN dst /\ dst[n] = src[n])
                 /\ src[n].kind = "dir" =>
                       \A x \in DOMAIN src[n].kids :
                          is_symlink(src[n].kids[x]) =>
                             /\ n \in DOMAIN dst
                             /\ x \in DOMAIN dst[n].kids
                             /\ dst[n].kids[x] = src[n].kids[x]

\* C9: the reserved name is never enumerated; once the manifest update
\* step has completed, the enumerated names are the subdirectories of
\* gnu-elpa/packages other than the reserved name, and the entries of the
\* manifest working copy other than .git are those names, each an empty
\* regular file.
C9_ManifestCorrect ==
    /\ MANIFEST \notin Range(packages)
    /\ manifestUpdated =>
          LET dst == local[MANIFEST].worktree
          IN  /\ Range(packages) =
                    {n \in DOMAIN packages_dir : is_dir(packages_dir[n])} \ {MANIFEST}
              /\ DOMAIN dst \ {".git"} = Range(packages)
              /\ \A n \in Range(packages) : dst[n] = File(0)

\* C9 witness: gnu-elpa/packages holds bar, foo and a directory with the
\* reserved name, and the manifest update completed over a working copy
\* that listed the removed old.el.
C9_Witness ==
    /\ manifestUpdated
    /\ MANIFEST \in DOMAIN packages_dir
    /\ packages = <<"bar", "foo">>
    /\ Ran("symbolic-ref", MANIFEST)
    /\ DOMAIN local[MANIFEST].worktree = {".git", "bar", "foo"}

\* C10: the listing is fetched at most once, and before any repository is
\* created or cloned; create_repo is only invoked for a name the listing
\* lacks, at most once per name, and before any clone or fetch of that
\* name; a run that completes has created exactly the enumerated packages
\* and the manifest that the listing lacked; listed and created
\* repositories stay in existence.
C10_Provisioning ==
    /\ Count("get_repos", "") <= 1
    /\ \A k \in DOMAIN events :
          (events[k].repo \in MirrorNames /\ events[k].cmd \in {"create_repo", "clone", "fetch"})
              => \E j \in 1..(k - 1) : events[j].cmd = "get_repos"
    /\ \A k \in DOMAIN events :
          events[k].cmd = "create_repo" => events[k].repo \notin existing_repos
    /\ \A n \in MirrorNames : Count("create_repo", n) <= 1
    /\ \A k \in DOMAIN events :
          (/\ events[k].cmd \in {"clone", "fetch"}
           /\ events[k].repo \in MirrorNames \ existing_repos)
              => \E j \in 1..(k - 1) : events[j] = Event("create_repo", events[k].repo, 0)
    /\ pc = "done" =>
          /\ Count("get_repos", "") = 1
          /\ \A n \in Range(packages) \cup {MANIFEST} :
                n \notin existing_repos <=> Count("create_repo", n) = 1
    /\ \A n \in existing_repos : remote[n].exists
    /\ \A k \in DOMAIN events :
          events[k] = Event("create_repo", events[k].repo, 0) => remote[events[k].repo].exists

\* C10 witness: a completed run that created the mirror of foo and the
\* manifest repository, cloned both, and created nothing for the listed bar.
C10_Witness ==
    /\ pc = "done" /\ packages = <<"bar", "foo">>
    /\ "bar" \in existing_repos /\ Count("create_repo", "bar") = 0
    /\ Count("create_repo", "foo") = 1 /\ Count("create_repo", MANIFEST) = 1
    /\ Ran("clone", "foo") /\ Ran("clone", MANIFEST)

====
